---- MODULE Spec2Model ----
(***************************************************************************)
(* mackerel-plugin-iostat: the diskstats pipeline of IostatPlugin.         *)
(*                                                                         *)
(* A Go string is modelled as a sequence of one-character strings, so that *)
(* strings.Split, strings.Fields, strings.HasPrefix, strings.Replace, the  *)
(* regular expression deviceNamePattern and strconv.ParseFloat are         *)
(* computed character by character, as the library computes them.          *)
(* A float64 is modelled as an exact rational <<num, den>> in lowest terms *)
(* (den > 0); the counters used here are far below 2^53.                   *)
(***************************************************************************)
EXTENDS Integers, Sequences, FiniteSets, TLC

VARIABLES
    op,             \* the method of IostatPlugin that ran last
    IgnoreVirtual,  \* IostatPlugin.IgnoreVirtual
    stats,          \* text of /proc/diskstats (argument of formatDiskstats)
    devices,        \* listing of /sys/block (argument of analyzeBlockdevices)
    label,          \* argument label of parseStats
    disk,           \* argument stats of parseStats: one tokenized row
    metricsIn,      \* the map handed to parseStats, before the call
    result,         \* rows returned by formatDiskstats
    blocks,         \* map returned by analyzeBlockdevices / local blocks of FetchMetrics
    metrics,        \* map returned by FetchMetrics / left by parseStats
    isNil,          \* TRUE when the returned map is Go's nil
    err             \* the returned error ("nil" for none), or a runtime panic

vars == <<op, IgnoreVirtual, stats, devices, label, disk, metricsIn,
          result, blocks, metrics, isNil, err>>

-----------------------------------------------------------------------------
(* Bounds of the model.                                                    *)

MaxTextLen == 6
MaxRows == 2
MaxDevices == 3
ExtraCounters == 1

-----------------------------------------------------------------------------
(* Characters and library string functions.                                *)

Digit == {"0", "1", "2", "3", "4", "5", "6", "7", "8", "9"}

Lower == {"a", "b", "c", "d", "e", "f", "g", "h", "i", "j", "k", "l", "m",
          "n", "o", "p", "q", "r", "s", "t", "u", "v", "w", "x", "y", "z"}

Upper == {"A", "B", "C", "D", "E", "F", "G", "H", "I", "J", "K", "L", "M",
          "N", "O", "P", "Q", "R", "S", "T", "U", "V", "W", "X", "Y", "Z"}

\* unicode.IsSpace on the ASCII range (strings.Fields splits on it).
IsSpace(c) == c \in {" ", "\t", "\n", "\r", "\f"}

\* strings.IndexByte: the first position of character c in s, 0 when absent.
Index(s, c) ==
    IF \E i \in 1..Len(s) : s[i] = c
    THEN CHOOSE i \in 1..Len(s) : s[i] = c /\ \A j \in 1..(i - 1) : s[j] # c
    ELSE 0

\* strings.Split(s, sep) for a one-character separator: the substrings
\* between the separators, empty ones included; never an empty list.
RECURSIVE Split(_, _)
Split(s, sep) ==
    LET i == Index(s, sep)
    IN  IF i = 0 THEN <<s>>
        ELSE <<SubSeq(s, 1, i - 1)>> \o Split(SubSeq(s, i + 1, Len(s)), sep)

\* strings.Fields(s) from position i on: skip the spaces in front, take
\* the field up to the next space or the end, go on after it.
RECURSIVE FieldsFrom(_, _)
FieldsFrom(s, i) ==
    IF \A j \in i..Len(s) : IsSpace(s[j]) THEN <<>>
    ELSE LET fieldStart == CHOOSE j \in i..Len(s) :
                               ~IsSpace(s[j]) /\ \A k \in i..(j - 1) : IsSpace(s[k])
             fieldEnd   == CHOOSE j \in fieldStart..Len(s) :
                               /\ \A k \in fieldStart..j : ~IsSpace(s[k])
                               /\ (j = Len(s) \/ IsSpace(s[j + 1]))
         IN  <<SubSeq(s, fieldStart, fieldEnd)>> \o FieldsFrom(s, fieldEnd + 1)

\* strings.Fields(s): the maximal runs of non-space characters, in order.
Fields(s) == FieldsFrom(s, 1)

\* strings.HasPrefix(s, prefix).
HasPrefix(s, prefix) ==
    /\ Len(s) >= Len(prefix)
    /\ SubSeq(s, 1, Len(prefix)) = prefix

\* strings.Join(elems, sep).
RECURSIVE Join(_, _)
Join(elems, sep) ==
    IF Len(elems) = 0 THEN <<>>
    ELSE IF Len(elems) = 1 THEN elems[1]
    ELSE elems[1] \o sep \o Join(Tail(elems), sep)

-----------------------------------------------------------------------------
(* formatDiskstats.                                                        *)

\* The loop of formatDiskstats over the lines, from line k on.
RECURSIVE formatLines(_, _, _)
formatLines(lines, k, acc) ==
    IF k > Len(lines) THEN acc
    ELSE LET matches == Fields(lines[k])
         IN  IF Len(matches) = 0 \/ Len(matches[1]) = 0
             THEN formatLines(lines, k + 1, acc)
             ELSE formatLines(lines, k + 1, Append(acc, matches))

\* Variant of formatDiskstats: the test for an empty line left out.
formatDiskstatsKeepBlank(text) ==
    LET lines == Split(text, "\n")
    IN  [k \in 1..Len(lines) |-> Fields(lines[k])]

formatDiskstats(text) == formatLines(Split(text, "\n"), 1, <<>>)

-----------------------------------------------------------------------------
(* float64 values as exact rationals, and strconv.ParseFloat.              *)

RECURSIVE GCD(_, _)
GCD(a, b) == IF b = 0 THEN a ELSE GCD(b, a % b)

Abs(n) == IF n < 0 THEN -n ELSE n

\* The rational n/d (d > 0) in lowest terms.
Rat(n, d) ==
    LET g == GCD(Abs(n), d)
    IN  IF n = 0 THEN <<0, 1>> ELSE <<n \div g, d \div g>>

\* x / k for a rational x and a positive integer k.
DivBy(x, k) == Rat(x[1], x[2] * k)

DigitVal(c) ==
    CASE c = "0" -> 0 [] c = "1" -> 1 [] c = "2" -> 2 [] c = "3" -> 3
      [] c = "4" -> 4 [] c = "5" -> 5 [] c = "6" -> 6 [] c = "7" -> 7
      [] c = "8" -> 8 [] c = "9" -> 9

\* The digits of s from position i on, read as a decimal number: num is
\* the digits read (the point dropped), den is 10^(digits after the point).
RECURSIVE readDecimal(_, _, _, _, _)
readDecimal(s, i, num, den, afterPoint) ==
    IF i > Len(s) THEN <<num, den>>
    ELSE IF s[i] = "."
         THEN readDecimal(s, i + 1, num, den, TRUE)
         ELSE readDecimal(s, i + 1, num * 10 + DigitVal(s[i]),
                          IF afterPoint THEN den * 10 ELSE den, afterPoint)

\* strconv.ParseFloat(s, 64) on the decimal grammar [+-]?digits[.digits]
\* (at least one digit, at most one point): [val, ok]. Any other token is
\* a syntax error, for which ParseFloat returns 0 and an error. Exponents,
\* hexadecimal floats, "inf" and "nan" are not among the tokens modelled.
ParseFloat(s) ==
    LET signed == Len(s) > 0 /\ s[1] \in {"+", "-"}
        body   == IF signed THEN Tail(s) ELSE s
        points == {i \in 1..Len(body) : body[i] = "."}
        valid  == /\ \A i \in 1..Len(body) : body[i] \in Digit \cup {"."}
                  /\ Cardinality(points) <= 1
                  /\ \E i \in 1..Len(body) : body[i] \in Digit
        q      == readDecimal(body, 1, 0, 1, FALSE)
    IN  IF valid
        THEN [val |-> Rat(IF signed /\ s[1] = "-" THEN -q[1] ELSE q[1], q[2]),
              ok  |-> TRUE]
        ELSE [val |-> <<0, 1>>, ok |-> FALSE]

-----------------------------------------------------------------------------
(* Errors. kind "nil" is Go's nil error; kind "panic" is a runtime panic   *)
(* (index or slice bounds out of range), which no caller recovers.         *)

NoError == [kind |-> "nil", what |-> <<>>]

\* fmt.Errorf("Failed to parse value: %s", err), err naming the token.
ParseError(token) == [kind |-> "parse", what |-> token]

\* fmt.Errorf("Cannot read from directory /sys/block/%s: %s", name, err).
ReadlinkError(name) == [kind |-> "readlink", what |-> name]

Panic == [kind |-> "panic", what |-> <<>>]

\* The empty map, make(map[string]...).
EmptyMap == <<>>

-----------------------------------------------------------------------------
(* deviceNamePattern and metricNames.                                      *)

\* [[:alnum:]]
Alnum == Digit \cup Lower \cup Upper

\* `[^[[:alnum:]]_-]` at position i of s. The bracket expression ends at
\* the first "]": it is the negated class of "[" and [:alnum:]. The rest,
\* "_-]", is three literal characters, so a match is four characters long.
patternMatchesAt(s, i) ==
    /\ i + 3 <= Len(s)
    /\ s[i] \notin (Alnum \cup {"["})
    /\ s[i + 1] = "_"
    /\ s[i + 2] = "-"
    /\ s[i + 3] = "]"

\* deviceNamePattern.ReplaceAllString(s, ""): the leftmost non-overlapping
\* matches removed, scanning from position i.
RECURSIVE replaceAllFrom(_, _)
replaceAllFrom(s, i) ==
    IF i > Len(s) THEN <<>>
    ELSE IF patternMatchesAt(s, i) THEN replaceAllFrom(s, i + 4)
    ELSE <<s[i]>> \o replaceAllFrom(s, i + 1)

deviceDispName(device) == replaceAllFrom(device, 1)

metricNames ==
    << <<"r", "e", "q", "u", "e", "s", "t", ".", "r", "e", "a", "d", "s">>,
       <<"m", "e", "r", "g", "e", ".", "r", "e", "a", "d", "s">>,
       <<"s", "e", "c", "t", "o", "r", ".", "r", "e", "a", "d">>,
       <<"t", "i", "m", "e", ".", "r", "e", "a", "d">>,
       <<"r", "e", "q", "u", "e", "s", "t", ".", "w", "r", "i", "t", "e", "s">>,
       <<"m", "e", "r", "g", "e", ".", "w", "r", "i", "t", "e", "s">>,
       <<"s", "e", "c", "t", "o", "r", ".", "w", "r", "i", "t", "t", "e", "n">>,
       <<"t", "i", "m", "e", ".", "w", "r", "i", "t", "e">>,
       <<"i", "n", "p", "r", "o", "g", "r", "e", "s", "s", ".", "i", "o">>,
       <<"t", "i", "m", "e", ".", "i", "o">>,
       <<"t", "i", "m", "e", ".", "i", "o", "W", "e", "i", "g", "h", "t", "e", "d">>,
       <<"r", "e", "q", "u", "e", "s", "t", ".", "d", "i", "s", "c", "a", "r", "d", "s">>,
       <<"m", "e", "r", "g", "e", ".", "d", "i", "s", "c", "a", "r", "d", "s">>,
       <<"s", "e", "c", "t", "o", "r", ".", "D", "i", "s", "c", "a", "r", "d", "e", "d">>,
       <<"t", "i", "m", "e", ".", "d", "i", "s", "c", "a", "r", "d">> >>

\* Variant of metricKey: the replacement written "."+label.
metricKeyNoDot(name, lbl) ==
    LET i == Index(name, ".")
    IN  IF i = 0 THEN name
        ELSE SubSeq(name, 1, i - 1) \o <<".">> \o lbl
             \o SubSeq(name, i + 1, Len(name))

\* strings.Replace(name, ".", "."+label+".", 1).
metricKey(name, lbl) ==
    LET i == Index(name, ".")
    IN  IF i = 0 THEN name
        ELSE SubSeq(name, 1, i - 1) \o <<".">> \o lbl \o <<".">>
             \o SubSeq(name, i + 1, Len(name))

\* strings.Split(key, ".")[0].
category(key) == Split(key, ".")[1]

\* Variant of perMinute: every category divided by 60.
perMinuteAll ==
    { <<"r", "e", "q", "u", "e", "s", "t">>, <<"m", "e", "r", "g", "e">>, <<"s", "e", "c", "t", "o", "r">>, <<"t", "i", "m", "e">>, <<"i", "n", "p", "r", "o", "g", "r", "e", "s", "s">> }

\* The cases of the switch in parseStats: the categories divided by 60.
perMinute ==
    { <<"r", "e", "q", "u", "e", "s", "t">>,
      <<"m", "e", "r", "g", "e">>,
      <<"s", "e", "c", "t", "o", "r">>,
      <<"t", "i", "m", "e">> }

-----------------------------------------------------------------------------
(* parseStats.                                                             *)

\* The loop of parseStats over stats[3:]. The loop state st holds the
\* 0-based index i into the slice and the map as written so far.
RECURSIVE parseLoop(_, _, _)
parseLoop(lbl, row, st) ==
    IF 3 + st.i >= Len(row) THEN [metrics |-> st.metrics, err |-> NoError]
    ELSE IF st.i >= Len(metricNames) THEN [metrics |-> st.metrics, err |-> Panic]
    ELSE LET key == metricKey(metricNames[st.i + 1], lbl)
             f   == ParseFloat(row[3 + st.i + 1])
             m1  == (key :> f.val) @@ st.metrics
         IN  IF ~f.ok THEN [metrics |-> m1, err |-> ParseError(row[3 + st.i + 1])]
             ELSE parseLoop(lbl, row,
                            [i |-> st.i + 1,
                             metrics |-> IF category(key) \in perMinute
                                         THEN (key :> DivBy(f.val, 60)) @@ m1
                                         ELSE m1])

\* Variant of parseStats: a row of a token count other than 14 and 18 ends in
\* the out-of-range panic.
parseStatsStrict(lbl, row, m) ==
    IF Len(row) \notin {14, 18} THEN [metrics |-> m, err |-> Panic]
    ELSE parseLoop(lbl, row, [i |-> 0, metrics |-> m])

\* parseStats(label, stats, metrics): the map as the call leaves it, and
\* the error. stats[3:] panics on a row of fewer than 3 tokens.
parseStats(lbl, row, m) ==
    IF Len(row) < 3 THEN [metrics |-> m, err |-> Panic]
    ELSE parseLoop(lbl, row, [i |-> 0, metrics |-> m])

-----------------------------------------------------------------------------
(* analyzeBlockdevices.                                                    *)

\* Variant of virtualPrefix: the prefix written one directory further up.
virtualPrefixUp ==
    <<".", ".", "/">> \o <<".", ".", "/", "d", "e", "v", "i", "c", "e", "s", "/", "v", "i", "r", "t", "u", "a", "l", "/", "b", "l", "o", "c", "k", "/">>

\* The literal of the strings.HasPrefix test.
virtualPrefix == <<".", ".", "/", "d", "e", "v", "i", "c", "e", "s", "/", "v", "i", "r", "t", "u", "a", "l", "/", "b", "l", "o", "c", "k", "/">>

\* Variant of isSymlink: the mode test left out.
isSymlinkAlways(device) == TRUE

\* device.Mode()&os.ModeSymlink == os.ModeSymlink
isSymlink(device) == device.mode = "symlink"

\* The loop of analyzeBlockdevices from entry k on; b is the map so far.
\* An entry is [name, mode, real, readlinkFails]: real is what os.Readlink
\* returns for /sys/block/<name>.
RECURSIVE analyzeLoop(_, _, _)
analyzeLoop(devs, k, b) ==
    IF k > Len(devs) THEN [blocks |-> b, isNil |-> FALSE, err |-> NoError]
    ELSE LET device == devs[k]
             b0     == (device.name :> FALSE) @@ b
         IN  IF ~isSymlink(device) THEN analyzeLoop(devs, k + 1, b0)
             ELSE IF device.readlinkFails
             THEN [blocks |-> EmptyMap, isNil |-> TRUE,
                   err |-> ReadlinkError(device.name)]
             ELSE IF HasPrefix(device.real, virtualPrefix)
             THEN analyzeLoop(devs, k + 1, b0)
             ELSE analyzeLoop(devs, k + 1, (device.name :> TRUE) @@ b0)

analyzeBlockdevices(devs) == analyzeLoop(devs, 1, EmptyMap)

-----------------------------------------------------------------------------
(* FetchMetrics.                                                           *)

\* Variant of skipVirtual: no row is skipped.
skipVirtualNever(b, device) == FALSE

\* Variant of skipVirtual: the value of the entry read without the "!".
skipVirtualInverted(b, device) == device \in DOMAIN b /\ b[device]

\* if val, ok := blocks[device]; ok && !val
skipVirtual(b, device) == device \in DOMAIN b /\ ~b[device]

\* Variant of fetchLoop: on an error of parseStats the map filled so far is
\* returned with the error.
RECURSIVE fetchLoopPartial(_, _, _)
fetchLoopPartial(rows, b, st) ==
    IF st.k > Len(rows)
    THEN [metrics |-> st.metrics, isNil |-> FALSE, err |-> NoError]
    ELSE IF Len(rows[st.k]) < 3
    THEN [metrics |-> EmptyMap, isNil |-> TRUE, err |-> Panic]
    ELSE LET device == rows[st.k][3]
             r      == parseStats(deviceDispName(device), rows[st.k], st.metrics)
         IN  IF skipVirtual(b, device)
             THEN fetchLoopPartial(rows, b, [k |-> st.k + 1, metrics |-> st.metrics])
             ELSE IF r.err.kind # "nil"
             THEN [metrics |-> st.metrics, isNil |-> FALSE, err |-> r.err]
             ELSE fetchLoopPartial(rows, b, [k |-> st.k + 1, metrics |-> r.metrics])

\* The loop of FetchMetrics over the rows. The loop state st holds the
\* position k of the row and the map metrics as filled so far.
RECURSIVE fetchLoop(_, _, _)
fetchLoop(rows, b, st) ==
    IF st.k > Len(rows)
    THEN [metrics |-> st.metrics, isNil |-> FALSE, err |-> NoError]
    ELSE IF Len(rows[st.k]) < 3   \* disk[2]: index out of range
    THEN [metrics |-> EmptyMap, isNil |-> TRUE, err |-> Panic]
    ELSE LET device == rows[st.k][3]
             r      == parseStats(deviceDispName(device), rows[st.k], st.metrics)
         IN  IF skipVirtual(b, device)
             THEN fetchLoop(rows, b, [k |-> st.k + 1, metrics |-> st.metrics])
             ELSE IF r.err.kind # "nil"
             THEN [metrics |-> EmptyMap, isNil |-> TRUE, err |-> r.err]
             ELSE fetchLoop(rows, b, [k |-> st.k + 1, metrics |-> r.metrics])

\* Variant of fetchBlocks: the listing is analyzed whatever the flag.
fetchBlocksAlways(ignore, devs) == analyzeBlockdevices(devs)

\* The local variable blocks of FetchMetrics once the listing is analyzed:
\* make(map[string]bool) unless IgnoreVirtual is set.
fetchBlocks(ignore, devs) ==
    IF ignore THEN analyzeBlockdevices(devs)
    ELSE [blocks |-> EmptyMap, isNil |-> FALSE, err |-> NoError]

\* FetchMetrics on the text io of /proc/diskstats and the listing devs of
\* /sys/block, for a plugin whose IgnoreVirtual field is ignore: the
\* returned map and error.
FetchMetrics(ignore, io, devs) ==
    LET a == fetchBlocks(ignore, devs)
    IN  IF a.err.kind # "nil"
        THEN [metrics |-> EmptyMap, isNil |-> TRUE, err |-> a.err]
        ELSE fetchLoop(formatDiskstats(io), a.blocks,
                       [k |-> 1, metrics |-> EmptyMap])

-----------------------------------------------------------------------------
(* Inputs: device names, link targets, rows and texts.                     *)

\* strconv.Itoa, to write the counters of a row as the kernel prints them.
DigitChar(d) == <<"0", "1", "2", "3", "4", "5", "6", "7", "8", "9">>[d + 1]

RECURSIVE Itoa(_)
Itoa(n) == IF n < 10 THEN <<DigitChar(n)>>
           ELSE Append(Itoa(n \div 10), DigitChar(n % 10))

Name_vda == <<"v", "d", "a">>
Name_vda1 == <<"v", "d", "a", "1">>
Name_loop0 == <<"l", "o", "o", "p", "0">>
Name_sdb == <<"s", "d", "b">>
\* A name with a character outside [A-Za-z0-9_-] (cciss/c0d0 style).
Name_c_d0 == <<"c", "/", "d", "0">>
\* A name holding the four-character sequence deviceNamePattern matches.
Name_odd == <<"a", ":", "_", "-", "]", "b">>

\* Link targets of /sys/block/<name>.
Real_virtual == <<".", ".", "/", "d", "e", "v", "i", "c", "e", "s", "/", "v", "i", "r", "t", "u", "a", "l", "/", "b", "l", "o", "c", "k", "/", "l", "o", "o", "p", "0">>
Real_virtual_up == <<".", ".", "/", ".", ".", "/", "d", "e", "v", "i", "c", "e", "s", "/", "v", "i", "r", "t", "u", "a", "l", "/", "b", "l", "o", "c", "k", "/", "l", "o", "o", "p", "0">>
Real_pci == <<".", ".", "/", "d", "e", "v", "i", "c", "e", "s", "/", "p", "c", "i", "0", "0", "0", "0", ":", "0", "0", "/", "0", "0", "0", "0", ":", "0", "0", ":", "0", "4", ".", "0", "/", "v", "i", "r", "t", "i", "o", "1", "/", "b", "l", "o", "c", "k", "/", "v", "d", "a">>
Real_pci_up == <<".", ".", "/", ".", ".", "/", "d", "e", "v", "i", "c", "e", "s", "/", "p", "c", "i", "0", "0", "0", "0", ":", "0", "0", "/", ".", ".", ".", "/", "b", "l", "o", "c", "k", "/", "v", "d", "a">>
Real_noslash == <<".", ".", "/", "d", "e", "v", "i", "c", "e", "s", "/", "v", "i", "r", "t", "u", "a", "l", "/", "b", "l", "o", "c", "k">>

Targets == {Real_virtual, Real_virtual_up, Real_pci, Real_pci_up, Real_noslash}

\* An entry of the /sys/block listing (os.FileInfo plus what os.Readlink
\* gives for it).
Dir(name) ==
    [name |-> name, mode |-> "dir", real |-> <<>>, readlinkFails |-> FALSE]

Symlink(name, real) ==
    [name |-> name, mode |-> "symlink", real |-> real, readlinkFails |-> FALSE]

BrokenSymlink(name) ==
    [name |-> name, mode |-> "symlink", real |-> <<>>, readlinkFails |-> TRUE]

ListedNames == {Name_vda, Name_loop0, Name_sdb}

Entries ==
    {Dir(n) : n \in ListedNames}
    \cup {Symlink(n, t) : n \in ListedNames, t \in Targets}
    \cup {BrokenSymlink(n) : n \in ListedNames}

\* The listings of at most k entries with pairwise different names, in any
\* order (a directory holds a name once).
Listings(k) ==
    {l \in UNION {[1..n -> Entries] : n \in 0..k} :
        \A i, j \in 1..Len(l) : i # j => l[i].name # l[j].name}

\* Counters of the vda row of TestParseStats, then four discard counters.
CountersA ==
    <<62695, 0, 2880751, 26352, 1383415, 166185, 10725792, 396176,
      0, 25204, 301208, 120, 6, 4096, 90>>

\* Counters of a busy device: I/Os in progress is not 0.
CountersB ==
    <<526, 62, 12008, 96, 964, 10253, 89736, 556, 7, 160, 280, 1, 2, 3, 4>>

\* The counter at position i of list c; positions past the list read 0.
CounterAt(c, i) == IF i <= Len(c) THEN c[i] ELSE 0

\* A tokenized row: major, minor, device name and n counters of list c.
Row(major, minor, name, c, n) ==
    <<Itoa(major), Itoa(minor), name>> \o [i \in 1..n |-> Itoa(CounterAt(c, i))]

\* The row with its j-th counter replaced by token t.
WithToken(row, j, t) == [row EXCEPT ![3 + j] = t]

Tok_bad == <<"1", "a">>
Tok_dash == <<"-">>

\* A line of /proc/diskstats as the kernel prints it ("%4d %7d %s ..."):
\* major and minor right-aligned, the other tokens after single spaces.
RECURSIVE PadLeft(_, _)
PadLeft(s, width) == IF Len(s) >= width THEN s ELSE PadLeft(<<" ">> \o s, width)

Line(row) ==
    IF Len(row) < 3 THEN Join(row, <<" ">>)
    ELSE PadLeft(row[1], 4) \o <<" ">> \o PadLeft(row[2], 7) \o <<" ">>
         \o Join(SubSeq(row, 3, Len(row)), <<" ">>)

\* The text of the given lines, each ended by a newline.
RECURSIVE Text(_)
Text(lines) == IF lines = <<>> THEN <<>>
               ELSE Head(lines) \o <<"\n">> \o Text(Tail(lines))

\* The rows of TestFormatDiskstats (11 counters each).
TestRows ==
    << Row(7, 0, Name_loop0, <<12330, 0, 26704, 960, 0, 0, 0, 0, 0, 68, 720>>, 11),
       Row(252, 0, Name_vda, CountersA, 11),
       Row(252, 16, Name_sdb, CountersB, 11) >>

TestText == Text([i \in 1..Len(TestRows) |-> Line(TestRows[i])])

TextAlphabet == {"a", "7", " ", "\t", "\n"}

\* Every text of at most k characters over TextAlphabet.
ShortTexts(k) == UNION {[1..n -> TextAlphabet] : n \in 0..k}

-----------------------------------------------------------------------------
(* The state machine: a plugin value and calls of its methods.             *)

\* The state after Do() built the plugin; -ignore-virtual sets the field.
Init ==
    /\ op = "Do"
    /\ IgnoreVirtual \in BOOLEAN
    /\ stats = <<>>
    /\ devices = <<>>
    /\ label = <<>>
    /\ disk = <<>>
    /\ metricsIn = EmptyMap
    /\ result = <<>>
    /\ blocks = EmptyMap
    /\ metrics = EmptyMap
    /\ isNil = FALSE
    /\ err = NoError

\* i.formatDiskstats(text), on a plugin value just built (each test builds
\* its own; a run of the process makes one call and exits).
CallFormatDiskstats ==
    /\ op = "Do"
    /\ \E text \in ShortTexts(MaxTextLen) \cup {TestText} :
        /\ op' = "formatDiskstats"
        /\ stats' = text
        /\ result' = formatDiskstats(text)
        /\ devices' = <<>>
        /\ label' = <<>>
        /\ disk' = <<>>
        /\ metricsIn' = EmptyMap
        /\ blocks' = EmptyMap
        /\ metrics' = EmptyMap
        /\ isNil' = FALSE
        /\ err' = NoError
        /\ UNCHANGED IgnoreVirtual

\* The listings analyzeBlockdevices is called with.
AnalyzeInputs == Listings(MaxDevices)

\* i.analyzeBlockdevices(devices)
CallAnalyzeBlockdevices ==
    /\ op = "Do"
    /\ \E devs \in AnalyzeInputs :
        \E a \in {analyzeBlockdevices(devs)} :
            /\ op' = "analyzeBlockdevices"
            /\ devices' = devs
            /\ blocks' = a.blocks
            /\ isNil' = a.isNil
            /\ err' = a.err
            /\ stats' = <<>>
            /\ label' = <<>>
            /\ disk' = <<>>
            /\ metricsIn' = EmptyMap
            /\ result' = <<>>
            /\ metrics' = EmptyMap
            /\ UNCHANGED IgnoreVirtual

\* The rows parseStats is called with: 0 to 15 counters and ExtraCounters
\* more, rows with a token that is no number, rows of fewer than 3 tokens.
ParseRows ==
    {Row(252, 0, Name_vda, c, n) :
        c \in {CountersA, CountersB}, n \in 0..(Len(metricNames) + ExtraCounters)}
    \cup {WithToken(Row(252, 0, Name_vda, CountersA, 11), j, Tok_bad) : j \in {1, 9, 11}}
    \cup {WithToken(Row(252, 0, Name_vda, CountersB, 15), 12, Tok_dash)}
    \cup {<<>>, <<Itoa(252)>>, <<Itoa(252), Itoa(0)>>}

ParseLabels == {Name_vda, Name_vda1, Name_c_d0}

\* A map left by earlier rows: a key of another device and a stale value
\* under a key of vda.
PriorMetrics ==
    (metricKey(metricNames[1], Name_vda) :> <<1, 1>>)
    @@ (metricKey(metricNames[9], Name_loop0) :> <<5, 1>>)

\* i.parseStats(label, stats, metrics)
CallParseStats ==
    /\ op = "Do"
    /\ \E lbl \in ParseLabels, row \in ParseRows, m \in {EmptyMap, PriorMetrics} :
        \E r \in {parseStats(lbl, row, m)} :
            /\ op' = "parseStats"
            /\ label' = lbl
            /\ disk' = row
            /\ metricsIn' = m
            /\ metrics' = r.metrics
            /\ isNil' = FALSE
            /\ err' = r.err
            /\ stats' = <<>>
            /\ devices' = <<>>
            /\ result' = <<>>
            /\ blocks' = EmptyMap
            /\ UNCHANGED IgnoreVirtual

\* The rows /proc/diskstats is made of.
FetchRows ==
    { Row(7, 0, Name_loop0, CountersB, 3),
      Row(252, 0, Name_vda, CountersA, 11),
      Row(252, 0, Name_vda, CountersB, 15),
      Row(252, 1, Name_vda1, CountersB, 2),
      WithToken(Row(252, 0, Name_vda, CountersA, 4), 2, Tok_bad),
      WithToken(Row(7, 0, Name_loop0, CountersB, 3), 1, Tok_bad),
      Row(104, 0, Name_c_d0, CountersB, 1),
      Row(9, 0, Name_odd, CountersB, 1),
      <<Itoa(252), Itoa(0)>>,
      Row(7, 0, Name_loop0, CountersB, Len(metricNames) + ExtraCounters),
      <<>> }

\* The texts of /proc/diskstats: at most k lines, in any order.
DiskstatsTexts(k) ==
    {Text([i \in 1..Len(rs) |-> Line(rs[i])]) :
        rs \in UNION {[1..n -> FetchRows] : n \in 0..k}}

\* What /sys/block may hold: a directory, a link into the virtual subtree,
\* a link to a PCI device, a link that cannot be read.
FetchNames == {Name_loop0, Name_vda}

FetchEntries ==
    {Dir(n) : n \in FetchNames}
    \cup {Symlink(n, t) : n \in FetchNames, t \in {Real_virtual, Real_pci}}
    \cup {BrokenSymlink(n) : n \in FetchNames}

\* The position of a listed name in the order of ioutil.ReadDir (by name).
NameRank(n) == IF n = Name_loop0 THEN 1 ELSE 2

\* fetchBlockdevices: the listings ioutil.ReadDir("/sys/block") returns,
\* sorted by name, of at most k entries.
fetchBlockdevices(k) ==
    {l \in UNION {[1..n -> FetchEntries] : n \in 0..k} :
        \A i, j \in 1..Len(l) : i < j => NameRank(l[i].name) < NameRank(l[j].name)}

\* i.FetchMetrics(): reads /proc/diskstats and, when IgnoreVirtual is set,
\* /sys/block.
CallFetchMetrics ==
    /\ op = "Do"
    /\ \E io \in DiskstatsTexts(MaxRows), devs \in fetchBlockdevices(MaxDevices) :
        \E r \in {FetchMetrics(IgnoreVirtual, io, devs)} :
            /\ op' = "FetchMetrics"
            /\ stats' = io
            /\ devices' = devs
            /\ metrics' = r.metrics
            /\ isNil' = r.isNil
            /\ err' = r.err
            /\ blocks' = fetchBlocks(IgnoreVirtual, devs).blocks
            /\ label' = <<>>
            /\ disk' = <<>>
            /\ metricsIn' = EmptyMap
            /\ result' = <<>>
            /\ UNCHANGED IgnoreVirtual

NextFormat == CallFormatDiskstats

SpecFormat == Init /\ [][NextFormat]_vars

NextAnalyze == CallAnalyzeBlockdevices

SpecAnalyze == Init /\ [][NextAnalyze]_vars

NextParse == CallParseStats

SpecParse == Init /\ [][NextParse]_vars

NextFetch == CallFetchMetrics

SpecFetch == Init /\ [][NextFetch]_vars

Next ==
    \/ CallFormatDiskstats
    \/ CallAnalyzeBlockdevices
    \/ CallParseStats
    \/ CallFetchMetrics

Spec == Init /\ [][Next]_vars

-----------------------------------------------------------------------------
(* C9: formatDiskstats.                                                    *)

\* Positions of stats where a field starts: a non-space character that is
\* first in the text or follows a space character (a newline is one).
FieldStarts ==
    {i \in 1..Len(stats) :
        ~IsSpace(stats[i]) /\ (i = 1 \/ IsSpace(stats[i - 1]))}

\* The last position of the field that starts at i.
FieldEnd(i) ==
    CHOOSE j \in i..Len(stats) :
        /\ \A k \in i..j : ~IsSpace(stats[k])
        /\ (j = Len(stats) \/ IsSpace(stats[j + 1]))

\* The 0-based number of the line position i lies on.
LineOf(i) == Cardinality({k \in 1..(i - 1) : stats[k] = "\n"})

\* The r-th smallest element of a set of numbers.
Nth(S, r) == CHOOSE x \in S : Cardinality({y \in S : y < x}) = r - 1

NonBlankLines == {LineOf(i) : i \in FieldStarts}

\* C9: formatDiskstats returns exactly one row per line that has a
\* non-space field, rows in the order of the lines, each row holding that
\* line's fields in order and nothing else; blank lines give no row and
\* the empty text gives the empty sequence.
C9_Tokenizer ==
    op = "formatDiskstats" =>
        /\ Len(result) = Cardinality(NonBlankLines)
        /\ \A r \in 1..Len(result) :
              LET starts == {i \in FieldStarts : LineOf(i) = Nth(NonBlankLines, r)}
              IN  /\ Len(result[r]) = Cardinality(starts)
                  /\ \A f \in 1..Len(result[r]) :
                        result[r][f] =
                            SubSeq(stats, Nth(starts, f), FieldEnd(Nth(starts, f)))
        /\ (stats = <<>> => result = <<>>)

\* Two rows come out of a text of four lines: a blank line and the empty
\* line after the trailing newline were dropped.
C9_Witness ==
    /\ op = "formatDiskstats"
    /\ Len(result) = 2
    /\ Len(Split(stats, "\n")) = 4
    /\ stats[Len(stats)] = "\n"

\* The rows of the fixture of TestFormatDiskstats come back token by token.
C9_WitnessFixture ==
    /\ op = "formatDiskstats"
    /\ stats = TestText
    /\ result = TestRows

-----------------------------------------------------------------------------
(* C3, C4: analyzeBlockdevices.                                            *)

\* The target t begins with the virtual-device path prefix.
BeginsWithVirtualPrefix(t) ==
    /\ Len(t) >= Len(virtualPrefix)
    /\ \A i \in 1..Len(virtualPrefix) : t[i] = virtualPrefix[i]

Reverse(l) == [i \in 1..Len(l) |-> l[Len(l) + 1 - i]]

\* C3: on success analyzeBlockdevices returns one entry per device name of
\* the listing; the entry is TRUE exactly for a symlink whose target does
\* not begin with the virtual-device prefix, FALSE for every non-symlink
\* and every symlink into the prefix; the listing in reverse order gives
\* the same map.
C3_Classification ==
    (op = "analyzeBlockdevices" /\ err.kind = "nil") =>
        /\ ~isNil
        /\ DOMAIN blocks = {devices[i].name : i \in 1..Len(devices)}
        /\ Cardinality(DOMAIN blocks) = Len(devices)
        /\ \A i \in 1..Len(devices) :
              blocks[devices[i].name] =
                  (devices[i].mode = "symlink"
                   /\ ~BeginsWithVirtualPrefix(devices[i].real))
        /\ analyzeBlockdevices(Reverse(devices)).blocks = blocks

\* A listing of a directory, a link into the virtual subtree and a link to
\* a PCI device was classified: FALSE, FALSE, TRUE.
C3_Witness ==
    /\ op = "analyzeBlockdevices"
    /\ err.kind = "nil"
    /\ Len(devices) = 3
    /\ \E i, j, k \in 1..Len(devices) :
          /\ devices[i].mode = "dir" /\ ~blocks[devices[i].name]
          /\ devices[j] = Symlink(devices[j].name, Real_virtual)
          /\ ~blocks[devices[j].name]
          /\ devices[k] = Symlink(devices[k].name, Real_pci)
          /\ blocks[devices[k].name]

\* C4 as amended: a symlink whose target is ../devices/virtual/block/loop0
\* is classified FALSE (virtual) and one whose target is
\* ../devices/pci0000:00/.../block/vda (or ../../devices/pci0000:00/...)
\* is classified TRUE; the prefix test recognises the form
\* ../devices/virtual/block/ only, so the target
\* ../../devices/virtual/block/loop0 is classified TRUE (physical).
C4_LinkTargets ==
    (op = "analyzeBlockdevices" /\ err.kind = "nil") =>
        \A i \in 1..Len(devices) :
            devices[i].mode = "symlink" =>
                /\ devices[i].real = Real_virtual => ~blocks[devices[i].name]
                /\ devices[i].real = Real_pci => blocks[devices[i].name]
                /\ devices[i].real = Real_pci_up => blocks[devices[i].name]
                /\ devices[i].real = Real_virtual_up => blocks[devices[i].name]

\* Both forms of the loop0 target were classified in one call.
C4_Witness ==
    /\ op = "analyzeBlockdevices"
    /\ err.kind = "nil"
    /\ \E i, j \in 1..Len(devices) :
          /\ devices[i] = Symlink(Name_loop0, Real_virtual_up)
          /\ blocks[Name_loop0]
          /\ devices[j] = Symlink(Name_vda, Real_pci_up)
          /\ blocks[Name_vda]
    /\ \E l \in 1..Len(devices) : devices[l].real = Real_virtual

\* C4 as stated: the target ../../devices/virtual/block/loop0 is
\* classified FALSE (virtual) and ../../devices/pci0000:00/.../block/vda
\* is classified TRUE.
C4_AsStated ==
    (op = "analyzeBlockdevices" /\ err.kind = "nil") =>
        \A i \in 1..Len(devices) :
            devices[i].mode = "symlink" =>
                /\ devices[i].real = Real_virtual_up => ~blocks[devices[i].name]
                /\ devices[i].real = Real_pci_up => blocks[devices[i].name]

-----------------------------------------------------------------------------
(* C6, C7: parseStats.                                                     *)

Key_request_vda_reads == <<"r", "e", "q", "u", "e", "s", "t", ".", "v", "d", "a", ".", "r", "e", "a", "d", "s">>
Key_inprogress_vda_io == <<"i", "n", "p", "r", "o", "g", "r", "e", "s", "s", ".", "v", "d", "a", ".", "i", "o">>
Key_time_vda_ioWeighted == <<"t", "i", "m", "e", ".", "v", "d", "a", ".", "i", "o", "W", "e", "i", "g", "h", "t", "e", "d">>
Key_request_vda1_reads == <<"r", "e", "q", "u", "e", "s", "t", ".", "v", "d", "a", "1", ".", "r", "e", "a", "d", "s">>
Cat_inprogress == <<"i", "n", "p", "r", "o", "g", "r", "e", "s", "s">>

\* The number of counters of the row handed to parseStats.
NumCounters == Len(disk) - 3

\* The template at position i with lbl between its category and subfield.
ExpectedKey(i, lbl) ==
    LET name == metricNames[i]
        dot  == CHOOSE d \in 1..Len(name) :
                    name[d] = "." /\ \A e \in 1..(d - 1) : name[e] # "."
    IN  [p \in 1..(Len(name) + Len(lbl) + 1) |->
            IF p <= dot THEN name[p]
            ELSE IF p <= dot + Len(lbl) THEN lbl[p - dot]
            ELSE IF p = dot + Len(lbl) + 1 THEN "."
            ELSE name[p - Len(lbl) - 1]]

\* The category of the template at position i: what precedes its dot.
TemplateCategory(i) ==
    SubSeq(metricNames[i], 1,
           (CHOOSE d \in 1..Len(metricNames[i]) : metricNames[i][d] = ".") - 1)

\* The rational v equals the rational p divided by 60.
IsSixtieth(v, p) == v[1] * 60 * p[2] = p[1] * v[2]

\* C6: after a successful parseStats the value under the key of each
\* counter is the parsed counter divided by 60 when the category is
\* request, merge, sector or time (discard variants included) and the
\* parsed counter itself under inprogress.<label>.io; the vda row of the
\* test gives 62695/60, 0 and 301208/60.
C6_UnitConversion ==
    (op = "parseStats" /\ err.kind = "nil") =>
        /\ \A i \in 1..NumCounters :
              LET v == metrics[ExpectedKey(i, label)]
                  p == ParseFloat(disk[3 + i]).val
              IN  IF TemplateCategory(i) = Cat_inprogress
                  THEN v = p
                  ELSE IsSixtieth(v, p)
        /\ (label = Name_vda /\ disk = Row(252, 0, Name_vda, CountersA, 11)) =>
              /\ metrics[Key_request_vda_reads] = <<12539, 12>>
              /\ metrics[Key_inprogress_vda_io] = <<0, 1>>
              /\ metrics[Key_time_vda_ioWeighted] = <<75302, 15>>

\* The row of a busy device with all 15 counters was normalized: 7 I/Os in
\* progress stay 7, the discard time 4 becomes 4/60.
C6_Witness ==
    /\ op = "parseStats"
    /\ err.kind = "nil"
    /\ label = Name_vda
    /\ disk = Row(252, 0, Name_vda, CountersB, 15)
    /\ metrics[Key_inprogress_vda_io] = <<7, 1>>
    /\ metrics[ExpectedKey(15, Name_vda)] = <<1, 15>>
    /\ metrics[Key_request_vda_reads] = <<263, 30>>

\* Every counter token of the row is a number.
AllNumeric == \A j \in 4..Len(disk) : ParseFloat(disk[j]).ok

\* C7: for a row of n numeric counters after the 3 identity fields,
\* 0 <= n <= 15, parseStats succeeds and adds exactly the n keys of the
\* first n templates with the label after the first "."; an 11-counter row
\* gets no discard key.
C7_PositionalKeys ==
    (op = "parseStats" /\ Len(disk) >= 3 /\ NumCounters <= 15 /\ AllNumeric) =>
        LET added == {ExpectedKey(i, label) : i \in 1..NumCounters}
        IN  /\ err.kind = "nil"
            /\ DOMAIN metrics = DOMAIN metricsIn \cup added
            /\ Cardinality(added) = NumCounters
            /\ \A k \in DOMAIN metricsIn \ added : metrics[k] = metricsIn[k]
            /\ \A i \in (NumCounters + 1)..15 :
                  ExpectedKey(i, label) \notin DOMAIN metrics \ DOMAIN metricsIn
            /\ (label = Name_vda1 /\ NumCounters >= 1) =>
                  Key_request_vda1_reads \in DOMAIN metrics

\* An 11-counter row was normalized into an empty map under label vda1.
C7_Witness ==
    /\ op = "parseStats"
    /\ err.kind = "nil"
    /\ label = Name_vda1
    /\ NumCounters = 11
    /\ metricsIn = EmptyMap
    /\ Cardinality(DOMAIN metrics) = 11
    /\ Key_request_vda1_reads \in DOMAIN metrics
    /\ ExpectedKey(12, Name_vda1) \notin DOMAIN metrics

-----------------------------------------------------------------------------
(* C1, C2, C5, C8, C10: FetchMetrics.                                      *)

\* The rows of the text FetchMetrics read.
Rows == formatDiskstats(stats)

\* The label of a key <category>.<label>.<subfield>: what lies between
\* its first and its last dot.
KeyLabel(k) ==
    LET dots == {i \in 1..Len(k) : k[i] = "."}
        first == CHOOSE i \in dots : \A j \in dots : i <= j
        last  == CHOOSE i \in dots : \A j \in dots : j <= i
    IN  SubSeq(k, first + 1, last - 1)

\* The row has a counter token that is no number.
HasBadCounter(row) == \E j \in 4..Len(row) : ~ParseFloat(row[j]).ok

\* The row is skipped as virtual: its device has an entry FALSE in blocks.
SkippedAsVirtual(row) == row[3] \in DOMAIN blocks /\ ~blocks[row[3]]

\* The result holds the key of every counter of the row, under label lbl.
FullMetricSet(row, lbl) ==
    \A i \in 1..(Len(row) - 3) : ExpectedKey(i, lbl) \in DOMAIN metrics

\* C1 as amended: whenever a row that is not skipped as virtual has a
\* counter token that is not a number, FetchMetrics yields no metric map at
\* all, not even the metrics of earlier rows: the map is nil and the error
\* is not nil; it is a returned error when every row has 3 to 18 tokens
\* (otherwise the run may end in the out-of-range panic instead).
C1_AllOrNothing ==
    (/\ op = "FetchMetrics"
     /\ \E r \in 1..Len(Rows) :
           /\ Len(Rows[r]) >= 3
           /\ HasBadCounter(Rows[r])
           /\ ~SkippedAsVirtual(Rows[r])) =>
        /\ err.kind # "nil"
        /\ isNil
        /\ metrics = EmptyMap
        /\ (\A r \in 1..Len(Rows) : Len(Rows[r]) \in 3..18) =>
              err.kind \in {"parse", "readlink"}

\* The first row parsed and the second row has a bad token: the call
\* failed with the parse error and a nil map.
C1_Witness ==
    /\ op = "FetchMetrics"
    /\ Len(Rows) = 2
    /\ Rows[1] = Row(252, 1, Name_vda1, CountersB, 2)
    /\ HasBadCounter(Rows[2])
    /\ err = ParseError(Tok_bad)
    /\ isNil

\* C1 as stated: whenever any row has a counter token that is not a
\* number, FetchMetrics fails and returns no metric map.
C1_AsStated ==
    (/\ op = "FetchMetrics"
     /\ \E r \in 1..Len(Rows) : HasBadCounter(Rows[r])) =>
        /\ err.kind # "nil"
        /\ isNil

\* C2: with IgnoreVirtual set, the returned map has no key for a device
\* the classifier maps to FALSE and has the key of every counter of the
\* row of a device the classifier maps to TRUE.
C2_VirtualFiltering ==
    (op = "FetchMetrics" /\ IgnoreVirtual /\ err.kind = "nil") =>
        /\ ~isNil
        /\ \A d \in DOMAIN blocks :
              ~blocks[d] => \A k \in DOMAIN metrics : KeyLabel(k) # d
        /\ \A r \in 1..Len(Rows) :
              (Rows[r][3] \in DOMAIN blocks /\ blocks[Rows[r][3]]) =>
                  FullMetricSet(Rows[r], Rows[r][3])

\* A text with the row of virtual loop0 and the 15-counter row of
\* physical vda gave the 15 keys of vda and nothing else.
C2_Witness ==
    /\ op = "FetchMetrics"
    /\ IgnoreVirtual
    /\ err.kind = "nil"
    /\ Len(Rows) = 2
    /\ \E r, s \in 1..Len(Rows) :
          /\ Rows[r][3] = Name_loop0 /\ Len(Rows[r]) > 3
          /\ Rows[s] = Row(252, 0, Name_vda, CountersB, 15)
    /\ Name_loop0 \in DOMAIN blocks /\ ~blocks[Name_loop0]
    /\ Name_vda \in DOMAIN blocks /\ blocks[Name_vda]
    /\ Cardinality(DOMAIN metrics) = 15

\* C5 as amended: a device is classified virtual (FALSE) if and only if
\* its entry is not a symlink or is a symlink whose target begins with the
\* virtual-device prefix; so with IgnoreVirtual set the row of every
\* non-symlink entry is filtered out.
C5_NonSymlinkFiltered ==
    (op = "FetchMetrics" /\ IgnoreVirtual /\ err.kind = "nil") =>
        \A i \in 1..Len(devices) :
            /\ devices[i].name \in DOMAIN blocks
            /\ ~blocks[devices[i].name] <=>
                  \/ devices[i].mode # "symlink"
                  \/ BeginsWithVirtualPrefix(devices[i].real)
            /\ devices[i].mode # "symlink" =>
                  \A k \in DOMAIN metrics : KeyLabel(k) # devices[i].name

\* vda is listed as a directory and has a row with counters; the returned
\* map holds the keys of the other row only.
C5_Witness ==
    /\ op = "FetchMetrics"
    /\ IgnoreVirtual
    /\ err.kind = "nil"
    /\ \E i \in 1..Len(devices) : devices[i] = Dir(Name_vda)
    /\ Len(Rows) = 2
    /\ Rows[1] = Row(252, 0, Name_vda, CountersA, 11)
    /\ Rows[2] = Row(252, 1, Name_vda1, CountersB, 2)
    /\ Cardinality(DOMAIN metrics) = 2

\* C5 as stated: a non-symlink device is physical, so with IgnoreVirtual
\* set the row of a non-symlink entry is not filtered out.
C5_AsStated ==
    (op = "FetchMetrics" /\ IgnoreVirtual /\ err.kind = "nil") =>
        \A r \in 1..Len(Rows) :
            (\E i \in 1..Len(devices) :
                devices[i].name = Rows[r][3] /\ devices[i].mode # "symlink") =>
                FullMetricSet(Rows[r], Rows[r][3])

\* The characters a label may keep: [A-Za-z0-9_-].
IsLabelChar(c) == c \in Alnum \cup {"_", "-"}

\* The name with every character outside [A-Za-z0-9_-] removed.
Stripped(name) == SelectSeq(name, IsLabelChar)

\* C8 as stated: the label in the keys of a row is the device name with
\* every character outside [A-Za-z0-9_-] removed, so every label consists
\* of such characters only, and a name made of them is used unchanged.
C8_AsStated ==
    (op = "FetchMetrics" /\ err.kind = "nil") =>
        /\ \A k \in DOMAIN metrics :
              \A i \in 1..Len(KeyLabel(k)) : IsLabelChar(KeyLabel(k)[i])
        /\ \A r \in 1..Len(Rows) :
              ~SkippedAsVirtual(Rows[r]) =>
                  FullMetricSet(Rows[r], Stripped(Rows[r][3]))

\* C10: a row whose device has no entry in blocks is always included,
\* with IgnoreVirtual set or not; without IgnoreVirtual nothing is
\* classified, the result is the one for the empty listing and no
\* symlink-resolution error can occur.
C10_NeverFiltered ==
    /\ (op = "FetchMetrics" /\ err.kind = "nil") =>
          \A r \in 1..Len(Rows) :
              Rows[r][3] \notin DOMAIN blocks =>
                  FullMetricSet(Rows[r], deviceDispName(Rows[r][3]))
    /\ (op = "FetchMetrics" /\ ~IgnoreVirtual) =>
          /\ blocks = EmptyMap
          /\ err.kind # "readlink"
          /\ [metrics |-> metrics, isNil |-> isNil, err |-> err]
                = FetchMetrics(FALSE, stats, <<>>)

\* Without IgnoreVirtual, with loop0 a link into the virtual subtree and
\* vda a link that cannot be read, the rows of loop0 and vda are included.
C10_Witness ==
    /\ op = "FetchMetrics"
    /\ ~IgnoreVirtual
    /\ devices = <<Symlink(Name_loop0, Real_virtual), BrokenSymlink(Name_vda)>>
    /\ err.kind = "nil"
    /\ Rows = <<Row(7, 0, Name_loop0, CountersB, 3),
                Row(252, 0, Name_vda, CountersA, 11)>>
    /\ Cardinality(DOMAIN metrics) = 14

\* With IgnoreVirtual set and loop0 virtual, the row of the partition
\* vda1, which /sys/block does not list, is included.
C10_WitnessPartition ==
    /\ op = "FetchMetrics"
    /\ IgnoreVirtual
    /\ err.kind = "nil"
    /\ Name_loop0 \in DOMAIN blocks /\ ~blocks[Name_loop0]
    /\ Name_vda1 \notin DOMAIN blocks
    /\ Rows = <<Row(7, 0, Name_loop0, CountersB, 3),
                Row(252, 1, Name_vda1, CountersB, 2)>>
    /\ DOMAIN metrics = {ExpectedKey(1, Name_vda1), ExpectedKey(2, Name_vda1)}

\* The row has a counter token that is no number among the counters that
\* have a name in metricNames.
HasBadNamedCounter(row) ==
    \E j \in 4..Len(row) : j <= 3 + Len(metricNames) /\ ~ParseFloat(row[j]).ok

\* Processing the row ends in an index out of range: the row has no third
\* token (disk[2] in FetchMetrics), or it is not skipped as virtual and has
\* a counter past the last name of metricNames (metricNames[i] in
\* parseStats), which is reached when the named counters are numbers.
OutOfRange(row) ==
    \/ Len(row) < 3
    \/ /\ ~SkippedAsVirtual(row)
       /\ Len(row) > 3 + Len(metricNames)
       /\ ~HasBadNamedCounter(row)

\* The loop of FetchMetrics goes past the row: it has a device name and is
\* skipped as virtual, or it has no more counters than metricNames has
\* names and they are all numbers.
PassedOver(row) ==
    /\ Len(row) >= 3
    /\ \/ SkippedAsVirtual(row)
       \/ Len(row) <= 3 + Len(metricNames) /\ ~HasBadCounter(row)

\* C11 as amended: a row ends in an out-of-range access only when it has
\* fewer than 3 tokens, or when it is not skipped as virtual and has more
\* than 18 tokens. On a successful call every row has at least 3 tokens and
\* each row that is not skipped has at most 18 tokens and yields one metric
\* for each counter it has, whether it has 14, 18 or another number of
\* tokens. When /sys/block was classified without error, the call ends in
\* the panic exactly when the first row the loop does not pass over is one
\* whose processing is out of range.
C11_RowShape ==
    op = "FetchMetrics" =>
        /\ err.kind = "nil" =>
              \A r \in 1..Len(Rows) :
                  /\ Len(Rows[r]) >= 3
                  /\ ~SkippedAsVirtual(Rows[r]) =>
                        /\ Len(Rows[r]) <= 3 + Len(metricNames)
                        /\ FullMetricSet(Rows[r], deviceDispName(Rows[r][3]))
        /\ err.kind # "readlink" =>
              (err.kind = "panic" <=>
                  \E r \in 1..Len(Rows) :
                      /\ OutOfRange(Rows[r])
                      /\ \A q \in 1..(r - 1) : PassedOver(Rows[q]))

\* A row of 5 tokens (the partition vda1 with 2 counters) was processed:
\* the call succeeded and returned its 2 metrics.
C11_Witness ==
    /\ op = "FetchMetrics"
    /\ Rows = <<Row(252, 1, Name_vda1, CountersB, 2)>>
    /\ err.kind = "nil"
    /\ ~isNil
    /\ DOMAIN metrics = {Key_request_vda1_reads,
                         metricKey(metricNames[2], Name_vda1)}

\* A row of 19 tokens was processed after a row of 14: the call ended in
\* the out-of-range panic.
C11_WitnessPanic ==
    /\ op = "FetchMetrics"
    /\ Len(Rows) = 2
    /\ Len(Rows[1]) = 14
    /\ Len(Rows[2]) = 3 + Len(metricNames) + ExtraCounters
    /\ ~SkippedAsVirtual(Rows[2])
    /\ err = Panic

\* A row of 19 tokens of a device classified virtual was skipped: the call
\* succeeded without a metric of that row.
C11_WitnessSkipped ==
    /\ op = "FetchMetrics"
    /\ IgnoreVirtual
    /\ \E r \in 1..Len(Rows) :
          Len(Rows[r]) > 3 + Len(metricNames) /\ SkippedAsVirtual(Rows[r])
    /\ err.kind = "nil"

\* C11 as stated: every row processed has exactly 14 or exactly 18 tokens,
\* a row of another token count ending in the out-of-range access instead
\* of metrics; so a successful call has processed only rows of 14 or 18
\* tokens.
C11_AsStated ==
    (op = "FetchMetrics" /\ err.kind = "nil") =>
        \A r \in 1..Len(Rows) :
            ~SkippedAsVirtual(Rows[r]) => Len(Rows[r]) \in {14, 18}

====
